---- MODULE Spec2Model ----
(***************************************************************************)
(* Model of basics/qubit_rotation.py: a straight-line script that prints   *)
(* a circuit value and two gradients, then runs 100 steps of gradient      *)
(* descent on cost(x) = circuit(x) and prints progress every 5 steps.      *)
(*                                                                         *)
(* Real numbers are fixed-point integers: the real r is the integer        *)
(* r * Scale.  RX(a) then RY(b) on |0> followed by expval(PauliZ) is       *)
(* cos(a) * cos(b); sin and cos are computed by range reduction and a      *)
(* Taylor polynomial, all products staying inside 32 bits.                 *)
(***************************************************************************)
EXTENDS Integers, Sequences, FiniteSets

\* pc          the statement to execute next, named by its line ("l37", ...),
\*             "done" after the last one, "failed" after an exception
\* init_params, params, opt, dev, i   the script's names (params is empty,
\*             opt is NoOpt and i is 0 until their first assignment)
\* n           the number of items taken from range(steps)
\* updates     the number of calls of opt.step that returned
\* out         the lines printed so far
VARIABLES pc, init_params, params, opt, dev, n, i, updates, out

vars == <<pc, init_params, params, opt, dev, n, i, updates, out>>

\* ------------------------------------------------------------ bounds
\* Fixed-point resolution: one unit is 1/Scale.
Scale == 10000

\* Longest parameter vector handed to the script in InputSpec.
MaxLen == 3

\* ------------------------------------------------------------ numbers
\* The decimal literal num/den.
Lit(num, den) == (num * Scale) \div den

Abs(x) == IF x < 0 THEN -x ELSE x

\* Division rounding to nearest (\div rounds down, also below zero).
RDiv(p, d) == (p + d \div 2) \div d

\* Product of two fixed-point numbers.
Mul(a, b) == RDiv(a * b, Scale)

Pi == Lit(31416, 10000)

\* cos on [0, Pi/2]: 1 - x^2/2! + x^4/4! - ... - x^10/10!, in Horner form.
CosPoly(x) ==
    LET x2 == Mul(x, x)
        t5 == Scale - RDiv(x2, 90)
        t4 == Scale - RDiv(Mul(x2, t5), 56)
        t3 == Scale - RDiv(Mul(x2, t4), 30)
        t2 == Scale - RDiv(Mul(x2, t3), 12)
    IN  Scale - RDiv(Mul(x2, t2), 2)

\* sin on [0, Pi/2]: x - x^3/3! + ... - x^11/11!, in Horner form.
SinPoly(x) ==
    LET x2 == Mul(x, x)
        t5 == Scale - RDiv(x2, 110)
        t4 == Scale - RDiv(Mul(x2, t5), 72)
        t3 == Scale - RDiv(Mul(x2, t4), 42)
        t2 == Scale - RDiv(Mul(x2, t3), 20)
        t1 == Scale - RDiv(Mul(x2, t2), 6)
    IN  Mul(x, t1)

\* x reduced to [-Pi, Pi).
Reduce(x) == ((x + Pi) % (2 * Pi)) - Pi

Cos(x) ==
    LET a == Abs(Reduce(x))
    IN  IF 2 * a <= Pi THEN CosPoly(a) ELSE -CosPoly(Pi - a)

Sin(x) ==
    LET r == Reduce(x)
        a == Abs(r)
        s == IF 2 * a <= Pi THEN SinPoly(a) ELSE SinPoly(Pi - a)
    IN  IF r < 0 THEN -s ELSE s

\* ------------------------------------------------------------ circuit
\* The device: one wire.
wires == 1

\* params[0] or params[1] raises IndexError on a vector shorter than 2
\* (TLA+ sequences are 1-based: params[0] is p[1], params[1] is p[2]).
Raises(p) == Len(p) < 2

\* circuit(params): RX(params[0]), RY(params[1]), expval(PauliZ(0)).
\* Components past the second are never read.
circuit(p) == Mul(Cos(p[1]), Cos(p[2]))

\* qml.grad(circuit, argnum=0): the derivative with respect to every
\* component of the vector argument; a component the circuit never reads
\* has derivative 0.
dcircuit(p) ==
    [k \in 1..Len(p) |->
        CASE k = 1 -> -Mul(Sin(p[1]), Cos(p[2]))
          [] k = 2 -> -Mul(Cos(p[1]), Sin(p[2]))
          [] OTHER -> 0]

\* circuit2(phi1, phi2) and its gradient with argnum=[0, 1]: a pair.
circuit2(phi1, phi2) == Mul(Cos(phi1), Cos(phi2))

dcircuit2(phi1, phi2) ==
    << -Mul(Sin(phi1), Cos(phi2)), -Mul(Cos(phi1), Sin(phi2)) >>

cost(x) == circuit(x)

\* ------------------------------------------------------------ optimizer
stepsize == Lit(4, 10)

NoOpt == [unset |-> TRUE]

GradientDescentOptimizer(s) == [stepsize |-> s]

\* Mutant: the gradient is added (ascent instead of descent).
opt_step_ascent(o, p) ==
    LET g == dcircuit(p)
    IN  [k \in 1..Len(p) |-> p[k] + Mul(o.stepsize, g[k])]

\* Mutant: the step size decays with the number of updates made.
opt_step_decay(o, p) ==
    LET g == dcircuit(p)
    IN  [k \in 1..Len(p) |-> p[k] - Mul(o.stepsize \div (updates + 1), g[k])]

\* Mutant: only the first component comes back.
opt_step_first(o, p) ==
    LET g == dcircuit(p)
    IN  << p[1] - Mul(o.stepsize, g[1]) >>

\* opt.step(cost, params): x - stepsize * grad(cost)(x).
opt_step(o, p) ==
    LET g == dcircuit(p)
    IN  [k \in 1..Len(p) |-> p[k] - Mul(o.stepsize, g[k])]

\* ------------------------------------------------------------ script
steps == 100

\* Mutant: one iteration too many.
RangeHasNext_OffByOne(k) == k <= steps

\* Mutant: the loop stops early once the gradient vanishes.
RangeHasNext_EarlyStop(k) ==
    /\ k < steps
    /\ ~(k > 0 /\ \A c \in 1..Len(params) : dcircuit(params)[c] = 0)

\* range(steps) has a next item after n items were taken.
RangeHasNext(k) == k < steps

\* Mutant: progress every 4 steps.
ProgressDue_Every4(k) == (k + 1) % 4 = 0

\* Mutant: the test is made on i, not on i + 1.
ProgressDue_OnIndex(k) == k % 5 = 0

\* if (i + 1) % 5 == 0
ProgressDue(k) == (k + 1) % 5 = 0

Line(kind, label, value) == [kind |-> kind, label |-> label, value |-> value]

TheLiteral == << Lit(11, 1000), Lit(12, 1000) >>

InitWith(p0) ==
    /\ pc = "l37"
    /\ init_params = p0
    /\ params = << >>
    /\ opt = NoOpt
    /\ dev = [wires |-> wires]
    /\ n = 0
    /\ i = 0
    /\ updates = 0
    /\ out = << >>

\* The script as written: init_params = np.array([0.011, 0.012]).
Init == InitWith(TheLiteral)

\* print(circuit([0.54, 0.12]))
PrintCircuit ==
    /\ pc = "l37"
    /\ out' = Append(out, Line("scalar", 0, << circuit(<< Lit(54, 100), Lit(12, 100) >>) >>))
    /\ pc' = "l40"
    /\ UNCHANGED <<init_params, params, opt, dev, n, i, updates>>

\* dcircuit = qml.grad(circuit, argnum=0); print(dcircuit([0.54, 0.12]))
PrintGrad ==
    /\ pc = "l40"
    /\ out' = Append(out, Line("gradient", 0, dcircuit(<< Lit(54, 100), Lit(12, 100) >>)))
    /\ pc' = "l52"
    /\ UNCHANGED <<init_params, params, opt, dev, n, i, updates>>

\* dcircuit = qml.grad(circuit2, argnum=[0, 1]); print(dcircuit(0.54, 0.12))
PrintGradPair ==
    /\ pc = "l52"
    /\ out' = Append(out, Line("gradient_pair", 0, dcircuit2(Lit(54, 100), Lit(12, 100))))
    /\ pc' = "l61"
    /\ UNCHANGED <<init_params, params, opt, dev, n, i, updates>>

\* Mutant: the exception is swallowed and the script goes on.
PrintInitCost_Caught ==
    /\ pc = "l61"
    /\ IF Raises(init_params)
         THEN pc' = "l64" /\ out' = out
         ELSE pc' = "l64" /\ out' = Append(out, Line("init_cost", 0, << cost(init_params) >>))
    /\ UNCHANGED <<init_params, params, opt, dev, n, i, updates>>

\* print(cost(init_params)): the first evaluation of the circuit on the
\* parameter vector; an exception is not caught and ends the script.
PrintInitCost ==
    /\ pc = "l61"
    /\ IF Raises(init_params)
         THEN pc' = "failed" /\ out' = out
         ELSE pc' = "l64" /\ out' = Append(out, Line("init_cost", 0, << cost(init_params) >>))
    /\ UNCHANGED <<init_params, params, opt, dev, n, i, updates>>

\* opt = qml.GradientDescentOptimizer(stepsize=0.4); steps = 100;
\* params = init_params
Setup ==
    /\ pc = "l64"
    /\ opt' = GradientDescentOptimizer(stepsize)
    /\ params' = init_params
    /\ pc' = "l71"
    /\ UNCHANGED <<init_params, dev, n, i, updates, out>>

\* for i in range(steps): the next item is taken
ForNext ==
    /\ pc = "l71"
    /\ RangeHasNext(n)
    /\ i' = n
    /\ n' = n + 1
    /\ pc' = "l73"
    /\ UNCHANGED <<init_params, params, opt, dev, updates, out>>

\* for i in range(steps): the range is exhausted
ForExit ==
    /\ pc = "l71"
    /\ ~RangeHasNext(n)
    /\ pc' = "l78"
    /\ UNCHANGED <<init_params, params, opt, dev, n, i, updates, out>>

\* params = opt.step(cost, params)
Step ==
    /\ pc = "l73"
    /\ IF Raises(params)
         THEN pc' = "failed" /\ UNCHANGED <<params, updates>>
         ELSE /\ params' = opt_step(opt, params)
              /\ updates' = updates + 1
              /\ pc' = "l75"
    /\ UNCHANGED <<init_params, opt, dev, n, i, out>>

\* Mutant: the progress print assigns the cost to params.
Check_Clobbers ==
    /\ pc = "l75"
    /\ out' = IF ProgressDue(i)
                THEN Append(out, Line("progress", i + 1, << cost(params) >>))
                ELSE out
    /\ params' = IF ProgressDue(i) THEN << cost(params) >> ELSE params
    /\ pc' = "l71"
    /\ UNCHANGED <<init_params, opt, dev, n, i, updates>>

\* if (i + 1) % 5 == 0: print("Cost after step ...".format(i + 1, cost(params)))
Check ==
    /\ pc = "l75"
    /\ out' = IF ProgressDue(i)
                THEN Append(out, Line("progress", i + 1, << cost(params) >>))
                ELSE out
    /\ pc' = "l71"
    /\ UNCHANGED <<init_params, params, opt, dev, n, i, updates>>

\* print("Optimized rotation angles: {}".format(params))
PrintFinal ==
    /\ pc = "l78"
    /\ out' = Append(out, Line("final", 0, params))
    /\ pc' = "done"
    /\ UNCHANGED <<init_params, params, opt, dev, n, i, updates>>

Next ==
    \/ PrintCircuit
    \/ PrintGrad
    \/ PrintGradPair
    \/ PrintInitCost
    \/ Setup
    \/ ForNext
    \/ ForExit
    \/ Step
    \/ Check
    \/ PrintFinal

Spec == Init /\ [][Next]_vars

\* ------------------------------------------------------------ other inputs
\* The script with another vector in place of the literal of line 60:
\* every vector of at most MaxLen components drawn from InputValues.
InputValues == { 0, Lit(11, 1000), Lit(12, 1000), -Lit(3, 2) }

RECURSIVE Vectors(_)
Vectors(len) ==
    IF len = 0 THEN { << >> }
    ELSE { Append(v, x) : v \in Vectors(len - 1), x \in InputValues }

InputVectors == UNION { Vectors(len) : len \in 0..MaxLen }

InitInput == \E p0 \in InputVectors : InitWith(p0)

InputSpec == InitInput /\ [][Next]_vars

\* The script runs forward without pause: Python executes the statements
\* one after another until the last one or until an exception escapes.
FairInputSpec == InputSpec /\ WF_vars(Next)

\* ------------------------------------------------------------ claims
Kinds(o) == [k \in 1..Len(o) |-> o[k].kind]

Progress(o) == SelectSeq(o, LAMBDA l : l.kind = "progress")

Repeat(x, count) == [k \in 1..count |-> x]

IsPrefix(a, b) == Len(a) <= Len(b) /\ a = SubSeq(b, 1, Len(a))

\* The rule the claims state: params - 0.4 * gradient(cost, params).
StatedRule(p) ==
    [k \in 1..Len(p) |-> p[k] - Mul(Lit(4, 10), dcircuit(p)[k])]

InLoop == pc \in {"l71", "l73", "l75", "l78", "done"}

\* C1: the loop never makes more than 100 updates nor prints more than 20
\* progress lines, and a complete run has made exactly 100 updates and
\* printed exactly 20 progress lines.
C1_ExactCounts ==
    /\ updates <= 100
    /\ Len(Progress(out)) <= 20
    /\ pc = "done" => updates = 100 /\ Len(Progress(out)) = 20

C1_Witness == pc = "done" /\ updates = 100 /\ Len(Progress(out)) = 20

\* C2 as stated: the complete output is two scalar prints, two gradient
\* prints, one gradient-pair print, one initial cost print, twenty progress
\* lines and the final line, in this order.
C2_Original ==
    pc = "done" =>
        Kinds(out) = << "scalar", "scalar", "gradient", "gradient",
                        "gradient_pair", "init_cost" >>
                     \o Repeat("progress", 20) \o << "final" >>

PrintedOrder ==
    << "scalar", "gradient", "gradient_pair", "init_cost" >>
    \o Repeat("progress", 20) \o << "final" >>

\* C2 amended: the output is at every moment a prefix of: one scalar print,
\* one gradient print, one gradient-pair print, one initial cost print,
\* twenty progress lines, one final line; the run is complete exactly when
\* all 25 lines are printed, the final line last.
C2_OutputOrder ==
    /\ IsPrefix(Kinds(out), PrintedOrder)
    /\ pc = "done" <=> Kinds(out) = PrintedOrder

C2_Witness == pc = "done" /\ Len(out) = 25 /\ out[25].kind = "final"

\* C3: whatever the parameter vector, provided no exception is raised (the
\* vector has the two components the circuit reads), the run eventually
\* prints the final line, last, having made exactly `steps` iterations and
\* updates: the count does not depend on the cost or the gradient.
C3_Terminates ==
    (Len(init_params) >= 2) ~>
        (pc = "done" /\ updates = steps /\ n = steps
                     /\ out[Len(out)].kind = "final")

C3_Witness ==
    /\ pc = "done"
    /\ updates = steps
    /\ init_params # TheLiteral
    /\ out[Len(out)].kind = "final"

\* C4: when the run is complete the cost is strictly lower than the initial
\* cost and every component of the gradient is within 1/1000 of zero.
C4_Descent ==
    pc = "done" =>
        /\ cost(params) < cost(init_params)
        /\ \A k \in 1..Len(params) : Abs(dcircuit(params)[k]) <= Lit(1, 1000)

C4_Witness ==
    /\ pc = "done"
    /\ updates = 100
    /\ cost(init_params) > 0
    /\ cost(params) < 0

\* C5: the parameter vector starts the loop as the initial vector; each
\* iteration replaces it by params - 0.4 * gradient(cost, params), the
\* gradient taken at the vector before that iteration, and counts one
\* update; nothing else changes it, so after k iterations it is the k-fold
\* application of the rule; the optimizer holds the step size 0.4 and
\* nothing else, in every iteration.
C5_UpdateRule ==
    [][ /\ pc = "l64" => params' = init_params /\ updates' = 0
        /\ pc = "l73" => /\ params' = StatedRule(params)
                         /\ updates = i
                         /\ updates' = i + 1
        /\ pc \notin {"l64", "l73"} => params' = params /\ updates' = updates
        /\ InLoop => opt = [stepsize |-> Lit(4, 10)] /\ opt' = opt
      ]_vars

C5_Witness ==
    /\ pc = "done"
    /\ updates = 100
    /\ params # init_params
    /\ opt = [stepsize |-> Lit(4, 10)]

\* C7 as stated: a parameter vector whose length is not 2, shorter or
\* longer, fails at its first evaluation: the script never gets past it.
C7_Original ==
    Len(init_params) # 2 => pc \in {"l37", "l40", "l52", "l61", "failed"}

\* C7 amended: a parameter vector shorter than 2 fails at its first
\* evaluation (the initial cost print) and ends the script: no optimizer
\* step is taken, nothing is printed after the three lines before it and
\* nothing can happen after the failure.
C7_ShortVectorFails ==
    Len(init_params) < 2 =>
        /\ pc \in {"l37", "l40", "l52", "l61", "failed"}
        /\ updates = 0
        /\ Len(out) <= 3
        /\ pc = "failed" => Len(out) = 3 /\ ~ENABLED Next

C7_Witness == pc = "failed" /\ Len(init_params) = 1 /\ Len(out) = 3

\* C8: the initial vector has exactly 2 components and, from the loop's
\* start to the final print, so has the parameter vector.
C8_TwoComponents ==
    /\ Len(init_params) = 2
    /\ InLoop => Len(params) = 2

C8_Witness == pc = "done" /\ updates = 100 /\ Len(params) = 2

\* C9: the j-th progress line is labelled 5 * j; after m finished
\* iterations exactly m \div 5 progress lines are printed; iteration i
\* prints one if and only if i + 1 is a multiple of 5, labelled i + 1 and
\* reporting the cost of the parameter vector after that iteration's
\* update (the i + 1-th); no other statement prints a progress line.
C9_Progress ==
    /\ [](LET prog == Progress(out)
          IN  /\ \A j \in 1..Len(prog) : prog[j].label = 5 * j
              /\ pc = "l71" => Len(prog) = n \div 5
              /\ pc \in {"l73", "l75"} => Len(prog) = i \div 5)
    /\ [][ /\ pc = "l75" =>
                  ( /\ updates = i + 1
                    /\ params' = params
                    /\ out' = IF (i + 1) % 5 = 0
                                THEN Append(out, Line("progress", i + 1, << cost(params) >>))
                                ELSE out )
           /\ pc # "l75" => Progress(out') = Progress(out)
         ]_vars

C9_Witness ==
    /\ pc = "done"
    /\ Len(Progress(out)) = 20
    /\ Progress(out)[20].label = 100
    /\ Progress(out)[20].value = << cost(params) >>
    /\ Progress(out)[1].value # Progress(out)[2].value

\* C10: printing (the prints before the loop, the initial cost, a progress
\* line, the final line) and taking the loop's next index leave the
\* parameter vector, the optimizer and the device unchanged; printing also
\* leaves the loop counter unchanged; once bound, the parameter vector
\* changes only by opt.step, which counts one update.
C10_Frame ==
    [][ /\ pc \in {"l37", "l40", "l52", "l61", "l75", "l78"} =>
              (UNCHANGED <<params, opt, dev, n, i, init_params, updates>>)
        /\ pc = "l71" => UNCHANGED <<params, opt, dev, init_params, updates>>
        /\ pc = "l73" => UNCHANGED <<opt, dev, n, i, init_params>>
        /\ (pc # "l64" /\ params' # params) =>
              (pc = "l73" /\ updates' = updates + 1)
      ]_vars

C10_Witness ==
    /\ pc = "l71"
    /\ n = 5
    /\ Len(Progress(out)) = 1
    /\ Progress(out)[1].value = << cost(params) >>
    /\ params # init_params
====
